---- MODULE Spec2Model ----
(***************************************************************************)
(* Food Shop API (src/main.py): the HTTP handlers over the single          *)
(* "product" collection of an external document store.                     *)
(*                                                                         *)
(* Representation.  A Python str is a sequence of one-character strings,   *)
(* None is the one-element sequence <<"None">> (no str contains it), a     *)
(* dict is a function from field names.  A price is kept in cents.         *)
(* HTTP detail strings, which are only ever compared for equality, are     *)
(* TLA+ strings.                                                           *)
(***************************************************************************)
EXTENDS Integers, Sequences, FiniteSets, TLC

VARIABLES
  db,     \* the process-wide connection handle: "None" or "handle"
  env,    \* whether DATABASE_URL / DATABASE_NAME are set in the environment
  coll,   \* the store's "product" collection: a set of documents
  seed,   \* seed[s]: the POST /api/seed request in flight in slot s
  seq,    \* seq[s]: how many documents slot s has had the store create
  resp    \* the response of the request that completed last

vars == <<db, env, coll, seed, seq, resp>>

----
\* Bounds of the model.

\* POST /api/products requests that may insert
MaxCreates == 2
\* POST /api/seed requests in flight at once, in SpecConc
MaxInFlight == 2

----
\* Strings.

None == <<"None">>
EmptyStr == <<>>

\* The characters in use, in code-point order.
CharOrder ==
  << " ", ",", "-", ".",
     "0", "1", "2", "3", "4", "5", "6", "7", "8", "9",
     "A", "B", "C", "D", "E", "F", "G", "H", "I", "J", "K", "L", "M",
     "N", "O", "P", "Q", "R", "S", "T", "U", "V", "W", "X", "Y", "Z",
     "a", "b", "c", "d", "e", "f", "g", "h", "i", "j", "k", "l", "m",
     "n", "o", "p", "q", "r", "s", "t", "u", "v", "w", "x", "y", "z" >>

OrdTable ==
  [c \in {CharOrder[i] : i \in 1..Len(CharOrder)} |->
     CHOOSE i \in 1..Len(CharOrder) : CharOrder[i] = c]

Ord(c) == OrdTable[c]

IsUpper(c) == Ord(c) >= Ord("A") /\ Ord(c) <= Ord("Z")

\* the character as the "i" option of a pattern compares it
Lower(c) == IF IsUpper(c) THEN CharOrder[Ord(c) - Ord("A") + Ord("a")] ELSE c

\* Python's order on str: by code point, a proper prefix first
RECURSIVE StrLess(_, _)
StrLess(a, b) ==
  IF b = <<>> THEN FALSE
  ELSE IF a = <<>> THEN TRUE
  ELSE IF Ord(a[1]) < Ord(b[1]) THEN TRUE
  ELSE IF Ord(a[1]) > Ord(b[1]) THEN FALSE
  ELSE StrLess(Tail(a), Tail(b))

\* Python's truth value of an Optional[str]
Truthy(s) == s # None /\ s # EmptyStr

\* the decimal digits of a natural number
RECURSIVE Digits(_)
Digits(n) ==
  IF n < 10 THEN <<CharOrder[Ord("0") + n]>>
  ELSE Digits(n \div 10) \o <<CharOrder[Ord("0") + (n % 10)]>>

----
\* Values the store creates.

\* The identifier the store gives a new document: opaque and unique.  The
\* model builds it from the slot that asked for it and that slot's count.
ObjectId(s, n) == <<"oid", s, n>>
\* A stored timestamp.
DateTime(n) == <<"datetime", n>>

\* str() of a stored value
PyStr(v) ==
  IF v = EmptyStr THEN EmptyStr
  ELSE IF v[1] = "oid" THEN Digits(v[2]) \o <<"-">> \o Digits(v[3])
  ELSE IF v[1] = "datetime" THEN Digits(v[2])
  ELSE v

----
\* Products.

ProductFields == {"title", "description", "price", "category", "in_stock"}

Product(title, description, price, category, in_stock) ==
  [title |-> title, description |-> description, price |-> price,
   category |-> category, in_stock |-> in_stock]

\* the Product schema's constraints on a request body
ValidProduct(p) == Len(p.title) > 0 /\ p.title # None /\ p.price >= 0

sample_products ==
  <<
    Product(<<"M","a","r","g","h","e","r","i","t","a"," ","P","i","z","z","a">>,
            <<"C","l","a","s","s","i","c"," ","p","i","z","z","a"," ","w","i","t","h"," ","t","o","m","a","t","o",","," ","m","o","z","z","a","r","e","l","l","a",","," ","a","n","d"," ","b","a","s","i","l">>,
            999, <<"P","i","z","z","a">>, TRUE),
    Product(<<"P","e","p","p","e","r","o","n","i"," ","P","i","z","z","a">>,
            <<"P","e","p","p","e","r","o","n","i",","," ","m","o","z","z","a","r","e","l","l","a",","," ","t","o","m","a","t","o"," ","s","a","u","c","e">>,
            1149, <<"P","i","z","z","a">>, TRUE),
    Product(<<"V","e","g","g","i","e"," ","B","u","r","g","e","r">>,
            <<"P","l","a","n","t","-","b","a","s","e","d"," ","p","a","t","t","y"," ","w","i","t","h"," ","f","r","e","s","h"," ","v","e","g","g","i","e","s">>,
            899, <<"B","u","r","g","e","r","s">>, TRUE),
    Product(<<"C","h","e","e","s","e","b","u","r","g","e","r">>,
            <<"B","e","e","f"," ","p","a","t","t","y",","," ","c","h","e","e","s","e",","," ","l","e","t","t","u","c","e",","," ","t","o","m","a","t","o">>,
            1049, <<"B","u","r","g","e","r","s">>, TRUE),
    Product(<<"C","h","i","c","k","e","n"," ","C","a","e","s","a","r"," ","S","a","l","a","d">>,
            <<"G","r","i","l","l","e","d"," ","c","h","i","c","k","e","n"," ","w","i","t","h"," ","r","o","m","a","i","n","e"," ","a","n","d"," ","C","a","e","s","a","r"," ","d","r","e","s","s","i","n","g">>,
            799, <<"S","a","l","a","d","s">>, TRUE),
    Product(<<"S","u","s","h","i"," ","P","l","a","t","t","e","r">>,
            <<"A","s","s","o","r","t","e","d"," ","r","o","l","l","s"," ","a","n","d"," ","n","i","g","i","r","i">>,
            1499, <<"S","u","s","h","i">>, TRUE),
    Product(<<"P","a","d"," ","T","h","a","i">>,
            <<"S","t","i","r","-","f","r","i","e","d"," ","r","i","c","e"," ","n","o","o","d","l","e","s"," ","w","i","t","h"," ","t","a","m","a","r","i","n","d"," ","s","a","u","c","e">>,
            1249, <<"A","s","i","a","n">>, TRUE),
    Product(<<"C","h","o","c","o","l","a","t","e"," ","C","a","k","e">>,
            <<"R","i","c","h"," ","a","n","d"," ","m","o","i","s","t"," ","c","h","o","c","o","l","a","t","e"," ","c","a","k","e"," ","s","l","i","c","e">>,
            499, <<"D","e","s","s","e","r","t","s">>, TRUE)
  >>

----
\* The external document store (database.py and the driver behind it).

\* the texts of the exceptions a store call may raise
StoreErrors == {"connection lost"}

Slots == 1..MaxInFlight
\* whose documents carry which identifiers: the handlers that run in one
\* step create theirs as slot 0, the documents stored before the process
\* started carry the slot after the last one
Preloaded == MaxInFlight + 1

\* one character of a pattern against one character of a text
CharMatch(p, c, options) ==
  \/ p = "."
  \/ IF options = "i" THEN Lower(p) = Lower(c) ELSE p = c

\* {"$regex": pattern, "$options": options} on a field's value: the pattern
\* matches somewhere in the text; a null field matches no pattern
RegexFind(pattern, text, options) ==
  /\ text # None
  /\ \E off \in 0..(Len(text) - Len(pattern)) :
       \A i \in 1..Len(pattern) : CharMatch(pattern[i], text[off + i], options)

\* a document against a filter: every key of the filter holds
Matches(d, filter) ==
  \A k \in DOMAIN filter :
    IF k = "$or"
    THEN \E i \in 1..Len(filter[k]) :
           /\ filter[k][i].field \in DOMAIN d
           /\ RegexFind(filter[k][i].regex, d[filter[k][i].field],
                        filter[k][i].options)
    ELSE k \in DOMAIN d /\ d[k] = filter[k]

\* the subsets of S of exactly k elements
RECURSIVE KSubsets(_, _)
KSubsets(S, k) ==
  IF k = 0 THEN {{}}
  ELSE UNION {{T \cup {x} : x \in S \ T} : T \in KSubsets(S, k - 1)}

\* a cursor capped at limit: the store's iteration order is its own, so any
\* limit of the matching documents may be the ones returned
Capped(S, limit) ==
  IF Cardinality(S) <= limit THEN {S}
  ELSE IF 2 * limit <= Cardinality(S) THEN KSubsets(S, limit)
  ELSE {S \ T : T \in KSubsets(S, Cardinality(S) - limit)}

\* get_documents(collection, filter, limit): the results it may return
get_documents(filter, limit) == Capped({d \in coll : Matches(d, filter)}, limit)

\* the document create_document stores for a record, asked for by slot s
NewDocument(p, s) ==
  [k \in DOMAIN p \cup {"_id"} |->
     IF k = "_id" THEN ObjectId(s, seq[s] + 1) ELSE p[k]]

\* create_document(collection, record): the store after the insert
create_document(p, s) ==
  /\ coll' = coll \cup {NewDocument(p, s)}
  /\ seq' = [seq EXCEPT ![s] = @ + 1]

\* db[collection].count_documents({})
count_documents == Cardinality(coll)

\* db[collection].distinct(field): the values of the field, a missing field
\* counting as null
distinct(field) == {IF field \in DOMAIN d THEN d[field] ELSE None : d \in coll}

\* db.list_collection_names(): a collection exists once it holds a document
list_collection_names == IF coll = {} THEN <<>> ELSE <<"product">>

----
\* Responses.

DefaultLimit == 100
MinLimit == 1
MaxLimit == 200
TestCollectionsCap == 10

NotConfigured == "Database not configured"
NoException == "no exception"

\* what a request that has completed leaves: the HTTP status, detail and
\* body, with what the request was (op, req), the documents it added to the
\* collection (added), the store calls it made (calls), the text of the
\* store exception raised in it (raised) and whether that exception left
\* the handler uncaught (escaped)
Response(op, req, status, detail, body, added, calls, raised, escaped) ==
  [op |-> op, req |-> req, status |-> status, detail |-> detail, body |-> body,
   added |-> added, calls |-> calls, raised |-> raised, escaped |-> escaped]

Ok(op, req, status, body, added, calls) ==
  Response(op, req, status, "", body, added, calls, NoException, FALSE)

\* raise HTTPException(status_code, detail) before any store call
Refused(op, req, status, detail) ==
  Response(op, req, status, detail, <<>>, 0, 0, NoException, FALSE)

\* except Exception as e: raise HTTPException(status_code=500, detail=str(e))
Caught(op, req, e, added, calls) ==
  Response(op, req, 500, e, <<>>, added, calls, e, FALSE)

\* an exception nothing in the handler catches: the framework answers 500
Uncaught(op, req, e, added, calls) ==
  Response(op, req, 500, "Internal Server Error", <<>>, added, calls, e, TRUE)

NoRequest == [op |-> "none"]

Complete(r) == resp' = r

Idle == [pc |-> "idle", i |-> 0, inserted |-> 0, calls |-> 0]

Quiet == \A s \in Slots : seed[s].pc = "idle"

----
\* Inputs of the requests.

CategoryInputs == {None, EmptyStr, <<"P","i","z","z","a">>}
SearchInputs == {None, <<"p","i","z","z","a">>, <<".">>}
\* ?limit= left out, or given
LimitInputs ==
  {[given |-> FALSE, value |-> 0]} \cup
  {[given |-> TRUE, value |-> v] :
     v \in {MinLimit - 1, MinLimit, MaxLimit, MaxLimit + 1}}

Calzone ==
  Product(<<"C","a","l","z","o","n","e">>,
          <<"F","o","l","d","e","d"," ","P","I","Z","Z","A">>,
          850, <<"p","i","z","z","a">>, TRUE)
Tea == Product(<<"T","e","a">>, None, 0, EmptyStr, FALSE)
Untitled == Product(EmptyStr, None, 100, None, TRUE)
Payloads == {Calzone, Tea, Untitled}
\* the limits up to the lower bound, and none given
LowLimits == {l \in LimitInputs : l.value <= MinLimit}
NoLimit == {l \in LimitInputs : ~l.given}

\* Documents in the store when the process starts.
Soup ==
  [title |-> <<"S","o","u","p">>, description |-> <<"H","o","t",".">>,
   price |-> 450, category |-> None, in_stock |-> TRUE,
   created_at |-> DateTime(7), updated_at |-> DateTime(8),
   _id |-> ObjectId(Preloaded, 1)]
Bulk(n) ==
  [title |-> <<"B","u","n">>, description |-> None, price |-> 100,
   category |-> <<"B","u","l","k">>, in_stock |-> TRUE,
   _id |-> ObjectId(Preloaded, n)]
InitialCollections == {{}, {Soup}}
\* so many documents that the last POST the model allows takes the collection
\* past the default limit
LargeCollection == {Bulk(n) : n \in 1..(DefaultLimit + 1 - MaxCreates)}

----
\* GET /

read_root ==
  /\ Complete(Ok("root", <<>>, 200, "Food Shop Backend Running",
                 0, 0))
  /\ UNCHANGED <<db, env, coll, seed, seq>>

----
\* GET /api/products

\* LimitValue with the upper bound as the default
LimitValue_default_max(limit) == IF limit.given THEN limit.value ELSE MaxLimit

\* limit: int = Query(100, ge=1, le=200)
LimitValue(limit) == IF limit.given THEN limit.value ELSE DefaultLimit
LimitAccepted(limit) ==
  LimitValue(limit) >= MinLimit /\ LimitValue(limit) <= MaxLimit

\* the filter list_products builds
filter_dict(category, search) ==
  [k \in (IF Truthy(category) THEN {"category"} ELSE {}) \cup
         (IF Truthy(search) THEN {"$or"} ELSE {}) |->
     IF k = "category" THEN category
     ELSE << [field |-> "title", regex |-> search, options |-> "i"],
             [field |-> "description", regex |-> search, options |-> "i"] >>]

\* Normalize popping "id", a key no stored document has
Normalize_wrong_key(d) ==
  LET id == PyStr(IF "id" \in DOMAIN d THEN d["id"] ELSE EmptyStr)
  IN  [k \in (DOMAIN d \ {"_id"}) \cup {"id"} |->
         IF k = "id" THEN id
         ELSE IF k \in {"created_at", "updated_at"} THEN PyStr(d[k])
         ELSE d[k]]

\* one stored document as list_products hands it on
Normalize(d) ==
  LET id == PyStr(IF "_id" \in DOMAIN d THEN d["_id"] ELSE EmptyStr)
  IN  [k \in (DOMAIN d \ {"_id"}) \cup {"id"} |->
         IF k = "id" THEN id
         ELSE IF k \in {"created_at", "updated_at"} THEN PyStr(d[k])
         ELSE d[k]]

\* response_model=List[ProductResponse]: the fields of the schema and id
ProductResponse(d) == [k \in ProductFields \cup {"id"} |-> d[k]]

list_products(categories, searches, limits) ==
  \E category \in categories, search \in searches, limit \in limits :
    LET req == [category |-> category, search |-> search, limit |-> limit]
    IN
    /\ UNCHANGED <<db, env, coll, seed, seq>>
    /\ IF ~LimitAccepted(limit)
       THEN Complete(Refused("list", req, 422, "limit out of range"))
       ELSE IF db = "None"
       THEN Complete(Refused("list", req, 500, NotConfigured))
       ELSE \/ \E e \in StoreErrors : Complete(Uncaught("list", req, e, 0, 1))
            \/ \E docs \in get_documents(filter_dict(category, search),
                                         LimitValue(limit)) :
                 Complete(Ok("list", req, 200,
                             {ProductResponse(Normalize(d)) : d \in docs}, 0, 1))

----
\* POST /api/products

create_product(payloads) ==
  \E product \in payloads :
    /\ UNCHANGED <<db, env, seed>>
    /\ IF ~ValidProduct(product)
       THEN /\ Complete(Refused("create", product, 422, "invalid body"))
            /\ UNCHANGED <<coll, seq>>
       ELSE IF db = "None"
       THEN /\ Complete(Refused("create", product, 500, NotConfigured))
            /\ UNCHANGED <<coll, seq>>
       ELSE \/ /\ \E e \in StoreErrors : Complete(Caught("create", product, e, 0, 1))
               /\ UNCHANGED <<coll, seq>>
            \/ /\ seq[0] < MaxCreates
               /\ create_document(product, 0)
               /\ Complete(Ok("create", product, 201,
                              [id |-> PyStr(NewDocument(product, 0)["_id"])], 1, 1))

----
\* GET /api/categories

\* sorted(...) of a set of str
RECURSIVE sorted(_)
sorted(S) ==
  IF S = {} THEN <<>>
  ELSE LET m == CHOOSE x \in S : \A y \in S \ {x} : StrLess(x, y)
       IN  <<m>> \o sorted(S \ {m})

\* SortedCategories dropping only the nulls
SortedCategories_not_none(categories) == sorted({c \in categories : c # None})

\* sorted([c for c in categories if c])
SortedCategories(categories) == sorted({c \in categories : Truthy(c)})

\* list_categories without the test of the connection handle
list_categories_unguarded ==
  /\ UNCHANGED <<db, env, coll, seed, seq>>
  /\ \/ \E e \in StoreErrors : Complete(Caught("categories", <<>>, e, 0, 1))
     \/ Complete(Ok("categories", <<>>, 200,
                    SortedCategories(distinct("category")), 0, 1))

list_categories ==
  /\ UNCHANGED <<db, env, coll, seed, seq>>
  /\ IF db = "None"
     THEN Complete(Refused("categories", <<>>, 500, NotConfigured))
     ELSE \/ \E e \in StoreErrors : Complete(Caught("categories", <<>>, e, 0, 1))
          \/ Complete(Ok("categories", <<>>, 200,
                         SortedCategories(distinct("category")), 0, 1))

----
\* POST /api/seed: the emptiness check, each insert and the final count are
\* store calls of their own, so the request is in flight between them.

seed_begin(s) ==
  /\ seed[s].pc = "idle"
  /\ UNCHANGED <<db, env, coll, seq>>
  /\ IF db = "None"
     THEN /\ Complete(Refused("seed", <<>>, 500, NotConfigured))
          /\ UNCHANGED seed
     ELSE /\ seed' = [seed EXCEPT ![s] =
                        [Idle EXCEPT !.pc = "check"]]
          /\ UNCHANGED resp

\* except Exception as e, around every store call of the handler
seed_raise(s) ==
  /\ \E e \in StoreErrors :
       Complete(Caught("seed", <<>>, e, seed[s].i, seed[s].calls + 1))
  /\ seed' = [seed EXCEPT ![s] = Idle]
  /\ UNCHANGED <<db, env, coll, seq>>

\* seed_check with the emptiness test the wrong way round
seed_check_inverted(s) ==
  /\ seed[s].pc = "check"
  /\ \/ seed_raise(s)
     \/ /\ seed' = [seed EXCEPT ![s].calls = @ + 1,
                                ![s].pc = IF count_documents # 0 THEN "insert" ELSE "total",
                                ![s].inserted = 0]
        /\ UNCHANGED <<db, env, coll, seq, resp>>

\* seed_check that empties a collection it finds filled, and seeds it again
seed_check_reset(s) ==
  /\ seed[s].pc = "check"
  /\ \/ seed_raise(s)
     \/ /\ seed' = [seed EXCEPT ![s].calls = @ + 1, ![s].pc = "insert",
                                ![s].inserted = 0]
        /\ coll' = {}
        /\ UNCHANGED <<db, env, seq, resp>>

\* if db["product"].count_documents({}) == 0
seed_check(s) ==
  /\ seed[s].pc = "check"
  /\ \/ seed_raise(s)
     \/ /\ seed' = [seed EXCEPT ![s].calls = @ + 1,
                                ![s].pc = IF count_documents = 0 THEN "insert" ELSE "total",
                                ![s].inserted = 0]
        /\ UNCHANGED <<db, env, coll, seq, resp>>

\* for p in sample_products: create_document("product", p)
seed_insert(s) ==
  /\ seed[s].pc = "insert"
  /\ \/ seed_raise(s)
     \/ /\ create_document(sample_products[seed[s].i + 1], s)
        /\ seed' = [seed EXCEPT
                      ![s].calls = @ + 1,
                      ![s].i = @ + 1,
                      ![s].pc = IF seed[s].i + 1 = Len(sample_products)
                                THEN "total" ELSE "insert",
                      ![s].inserted = IF seed[s].i + 1 = Len(sample_products)
                                      THEN Len(sample_products) ELSE 0]
        /\ UNCHANGED <<db, env, resp>>

\* return {"inserted": inserted, "total": db["product"].count_documents({})}
seed_total(s) ==
  /\ seed[s].pc = "total"
  /\ \/ seed_raise(s)
     \/ /\ Complete(Ok("seed", <<>>, 200,
                       [inserted |-> seed[s].inserted, total |-> count_documents],
                       seed[s].i, seed[s].calls + 1))
        /\ seed' = [seed EXCEPT ![s] = Idle]
        /\ UNCHANGED <<db, env, coll, seq>>

seed_products(s) == seed_begin(s) \/ seed_check(s) \/ seed_insert(s) \/ seed_total(s)

----
\* GET /test

Take(xs, n) == SubSeq(xs, 1, IF Len(xs) < n THEN Len(xs) ELSE n)

\* the diagnostic body; a failure of the store is text in it
Diagnostic(database, connection_status, collections) ==
  [backend |-> "Running", database |-> database,
   database_url |-> IF env.DATABASE_URL THEN "Set" ELSE "Not Set",
   database_name |-> IF env.DATABASE_NAME THEN "Set" ELSE "Not Set",
   connection_status |-> connection_status, collections |-> collections]

test_database ==
  /\ UNCHANGED <<db, env, coll, seed, seq>>
  /\ IF db # "None"
     THEN \/ Complete(Ok("test", <<>>, 200,
                         Diagnostic(<<"Connected & Working">>, "Connected",
                                    Take(list_collection_names, TestCollectionsCap)),
                         0, 1))
          \/ \E e \in StoreErrors :
               Complete(Response("test", <<>>, 200, "",
                                 Diagnostic(<<"Connected but Error: ", e>>,
                                            "Connected", <<>>),
                                 0, 1, e, FALSE))
     ELSE Complete(Ok("test", <<>>, 200,
                      Diagnostic(<<"Available but not initialized">>,
                                 "Not Connected", <<>>),
                      0, 0))

----
\* The specifications.

\* the connection handle is set only when the environment names a database
Configurations ==
  {[db |-> "None", env |-> [DATABASE_URL |-> FALSE, DATABASE_NAME |-> FALSE]],
   [db |-> "None", env |-> [DATABASE_URL |-> TRUE, DATABASE_NAME |-> TRUE]],
   [db |-> "handle", env |-> [DATABASE_URL |-> TRUE, DATABASE_NAME |-> TRUE]]}

Started(c, documents) ==
  /\ db = c.db
  /\ env = c.env
  /\ coll = documents
  /\ seed = [s \in Slots |-> Idle]
  /\ seq = [s \in 0..MaxInFlight |-> 0]
  /\ resp = NoRequest

Init ==
  \E c \in Configurations :
    \E documents \in (IF c.db = "None" THEN {{}} ELSE InitialCollections) :
      Started(c, documents)

\* one request at a time
Next ==
  \/ Quiet /\ read_root
  \/ Quiet /\ list_products(CategoryInputs, SearchInputs, LowLimits)
  \/ Quiet /\ create_product(Payloads)
  \/ Quiet /\ list_categories
  \/ Quiet /\ test_database
  \/ Quiet /\ seed_begin(1)
  \/ seed_check(1)
  \/ seed_insert(1)
  \/ seed_total(1)

Spec == Init /\ [][Next]_vars

\* seed requests in flight together, and with POST /api/products
InitConc ==
  \E c \in {x \in Configurations : x.db # "None"} : Started(c, {})

NextConc ==
  \/ create_product(Payloads)
  \/ \E s \in Slots : seed_products(s)

SpecConc == InitConc /\ [][NextConc]_vars

\* a collection that grows past the default limit, listed without a filter
\* under every limit
InitLarge ==
  \E c \in {x \in Configurations : x.db # "None"} : Started(c, LargeCollection)

NextLimit ==
  \/ create_product({Calzone})
  \/ list_products({None}, {None}, LimitInputs)

SpecLimit == InitLarge /\ [][NextLimit]_vars

\* the same collection, every payload posted to it, and the plain list
NextPosted ==
  \/ create_product(Payloads)
  \/ list_products({None}, {None}, NoLimit)

SpecPosted == InitLarge /\ [][NextPosted]_vars

----
\* Properties.

DataOps == {"list", "create", "categories", "seed"}
ReadOps == {"root", "list", "categories", "test"}

\* the documents the seed requests stored
Seeded == {d \in coll : d["_id"][2] \in Slots}

\* C1: two POST /api/seed in succession, from an empty collection and with
\* every store call succeeding: the first inserts the 8 samples and answers
\* inserted=8, the second inserts nothing and answers inserted=0, and both
\* answer the same total, 8.
C1_SeedTwice ==
  [][(/\ resp.op = "seed" /\ resp.status = 200
      /\ resp.body.total = resp.added
      /\ seed[1].pc = "total" /\ seed'[1].pc = "idle"
      /\ resp'.op = "seed" /\ resp'.status = 200)
     => (/\ resp.body.inserted = 8 /\ resp.added = 8 /\ resp.body.total = 8
         /\ resp'.body.inserted = 0 /\ resp'.added = 0
         /\ resp'.body.total = resp.body.total
         /\ coll' = coll /\ Cardinality(coll') = 8)]_vars

C1_Witness ==
  /\ resp.op = "seed" /\ resp.status = 200
  /\ resp.body = [inserted |-> 0, total |-> 8]
  /\ Seeded = coll /\ Cardinality(coll) = 8

\* a POST /api/products answer and the GET /api/products answer after it:
\* the list holds a record with the posted fields and the id the POST
\* returned, a non-empty string
PostedListed(post, get) ==
  /\ post.body.id # EmptyStr
  /\ \E item \in get.body :
       /\ item.id = post.body.id
       /\ \A f \in ProductFields : item[f] = post.req[f]

\* no category, no search, the default limit
PlainList(r) ==
  /\ r.op = "list" /\ r.status = 200
  /\ r.req.category = None /\ r.req.search = None /\ ~r.req.limit.given

\* C2 as stated: a successful POST /api/products followed by a plain GET
\* /api/products lists the posted record, whatever the collection held.
C2_PostThenList ==
  [][(resp.op = "create" /\ resp.status = 201 /\ PlainList(resp'))
     => PostedListed(resp, resp')]_vars

\* C2 amended: a successful POST /api/products followed by a plain GET
\* /api/products lists the posted record when the collection holds at most
\* 100 documents, the default limit.
C2_PostThenListWithinLimit ==
  [][(/\ resp.op = "create" /\ resp.status = 201 /\ PlainList(resp')
      /\ Cardinality(coll) <= 100)
     => PostedListed(resp, resp')]_vars

C2_Witness ==
  /\ PlainList(resp)
  /\ Cardinality(coll) = 100
  /\ \E item \in resp.body :
       item.title = Calzone.title /\ item.id = PyStr(ObjectId(0, 1))

\* C3: a store exception raised in a data endpoint is caught in its handler
\* and answered 500 with the exception's text as detail.
C3_StoreExceptionCaught ==
  (resp.op \in DataOps /\ resp.raised # NoException)
    => (resp.status = 500 /\ resp.detail = resp.raised /\ ~resp.escaped)

\* C4: with the connection handle unset, a data endpoint that runs answers
\* the error status with detail "Database not configured" and makes no store
\* call; GET / and GET /test answer normally, /test reporting the missing
\* connection in its body.
C4_NotConfigured ==
  db = "None" =>
    /\ Quiet
    /\ (resp.op \in DataOps /\ resp.status # 422) =>
         /\ resp.status = 500
         /\ resp.detail = "Database not configured"
         /\ resp.calls = 0
    /\ resp.op = "root" => resp.status = 200
    /\ resp.op = "test" =>
         /\ resp.status = 200 /\ resp.calls = 0 /\ resp.raised = NoException
         /\ resp.body.connection_status = "Not Connected"
         /\ resp.body.database = <<"Available but not initialized">>
         /\ resp.body.collections = <<>>

C4_Witness ==
  /\ db = "None" /\ resp.op = "categories"
  /\ resp.status = 500 /\ resp.detail = "Database not configured"

\* C5: a request answered with an error has added no document to the
\* collection.
C5_NoPartialFailure ==
  (resp.op # "none" /\ resp.status >= 400) => resp.added = 0

\* the text occurs in the field, letter case aside
Occurs(text, field) ==
  /\ field # None
  /\ \E off \in 0..(Len(field) - Len(text)) :
       \A i \in 1..Len(text) : Lower(field[off + i]) = Lower(text[i])

\* C6: every record GET /api/products returns has the category asked for,
\* when one is, and has the search text in its title or its description,
\* letter case aside, when one is asked for.
C6_FilterHolds ==
  (resp.op = "list" /\ resp.status = 200) =>
    \A item \in resp.body :
      /\ Truthy(resp.req.category) => item.category = resp.req.category
      /\ Truthy(resp.req.search) =>
           \/ Occurs(resp.req.search, item.title)
           \/ Occurs(resp.req.search, item.description)

\* C7: GET /api/products with limit N, 1 <= N <= 200, returns at most N
\* records, at most 100 with no limit given; with N below 1 or above 200 it
\* is rejected with a client error before any store call.
C7_LimitRespected ==
  resp.op = "list" =>
    LET N == IF resp.req.limit.given THEN resp.req.limit.value ELSE 100
    IN  IF N >= 1 /\ N <= 200
        THEN resp.status = 200 => Cardinality(resp.body) <= N
        ELSE resp.status = 422 /\ resp.calls = 0

C7_Witness ==
  /\ resp.op = "list" /\ resp.status = 200 /\ ~resp.req.limit.given
  /\ Cardinality(coll) > 100
  /\ Cardinality(resp.body) = 100

\* C8: GET /api/categories returns the distinct non-empty categories of the
\* stored products, each once, in ascending order, none empty or null.
C8_Categories ==
  (Quiet /\ resp.op = "categories" /\ resp.status = 200) =>
    /\ \A i, j \in 1..Len(resp.body) : i < j => StrLess(resp.body[i], resp.body[j])
    /\ \A i \in 1..Len(resp.body) :
         resp.body[i] # EmptyStr /\ resp.body[i] # None
    /\ {resp.body[i] : i \in 1..Len(resp.body)} =
         {d.category : d \in coll} \ {None, EmptyStr}

C8_Witness ==
  /\ Quiet /\ resp.op = "categories" /\ resp.status = 200
  /\ Len(resp.body) > 6
  /\ \E d \in coll : d.category = EmptyStr
  /\ Cardinality(coll) > Len(resp.body) + 1

DistinctIds == \A d1, d2 \in coll : d1["_id"] = d2["_id"] => d1 = d2

\* C9: the collection only grows: a stored document stays as it is, stored
\* ids are pairwise distinct, and the read endpoints leave the collection
\* as it was.
C9_OnlyGrows ==
  /\ DistinctIds
  /\ [][/\ coll \subseteq coll'
        /\ DistinctIds'
        /\ (resp' # resp /\ resp'.op \in ReadOps) => coll' = coll]_vars

C9_Witness ==
  /\ Quiet /\ resp.op = "list" /\ resp.status = 200
  /\ Cardinality(coll) > Cardinality(Seeded)
  /\ Cardinality(Seeded) = 8

\* C10: whatever the interleaving of seed requests with each other and with
\* POST /api/products, the collection never holds more than the 8 samples.
C10_SeededOnce == Cardinality(Seeded) <= 8

====
